---- MODULE Spec2Model ----
(***************************************************************************)
(* Model of download_file_parallel (src/google_download.py): a segmented,  *)
(* concurrent, resumable range download.  Sizes are counted in MiB, so the *)
(* code's factor 1024 * 1024 is the unit Mb.  A byte of the remote object  *)
(* is identified by the object it belongs to and its offset, which makes   *)
(* every loss, duplication, reordering or mix-up of data visible.          *)
(* Successive invocations of the program (sessions) share the file system. *)
(* Spec follows the invocations one after the other and takes the fetch of *)
(* a segment, which writes a file of its own, as one step; SpecLock takes  *)
(* one undisturbed invocation chunk by chunk, with the steps of the shared *)
(* counter and the progress monitor.                                       *)
(***************************************************************************)
EXTENDS Integers, Sequences, FiniteSets, TLC

\* ------------------------------------------------------------------ bounds
MaxTotal == 2
MaxPartMb == 2
MaxWorkers == 2
MaxFaults == 1
MaxLimit == 2
MaxDay == 1
MaxSenders == 2
MaxCalls == 3
MaxChunks == 2
MaxChunkLen == 2
MaxRead == 3

\* ------------------------------------------------------- program constants
Mb == 1
ChunkSize == Mb

FileIds == {1, 2}
\* destination paths as <<stem, extension>>
Dests == {<<"a", "mp4">>}
\* with a second file of the folder, whose name differs in the extension
AllDests == Dests \cup {<<"a", "mkv">>}
PartMbs == (-1)..MaxPartMb
PartIdx == 0..(MaxTotal - 1)

\* ---- the relay
MAX_SEND_RETRIES == 8
\* values of the configured cap: disabled (negative or 0) or a number of sends
Limits == (-1)..MaxLimit
Days == 0..MaxDay

VARIABLES
    session,            \* the current invocation: flips at every start
    seen,               \* number of file ids used so far
    faults,             \* failures of the server, the network or the disk so far
    phase,              \* position of the main thread
    file_id, total, part_mb, workers, dest_path,
    dirs,               \* part directories that exist
    parts,              \* part directory -> index -> file
    files,              \* destination path -> file
    st,                 \* per segment: state of its future / worker
    resp,               \* per segment: response body not yet iterated
    chunkLen,           \* per segment: length of the chunk just written
    tmpv,               \* per segment: value loaded for the += of the counter
    attempts,           \* per segment: range requests issued in this session
    dispatches,         \* per segment: times a worker picked it up
    submitted,          \* futures submitted so far (line 114)
    downloaded_bytes,
    lockW,              \* workers holding downloaded_lock
    mon,                \* position of progress_loop
    written,            \* sum of the lengths of the chunks written (session)
    merge_i,            \* next index of the merge loop
    destAtStart,        \* destination file when the session started
    partsAtStart,       \* the session's parts when the session started
    resumeAll,          \* every segment passed the resume test at start
    \* ---- the relay, src/google_to_tele.py
    DAILY_SEND_LIMIT,   \* configuration (line 45): 0 or less disables the cap
    state_file,         \* DAILY_STATE_FILE as it is on disk
    today,              \* the calendar day, as time.strftime gives it
    sendPc,             \* position of send_file_safe
    attempt,            \* its loop variable
    sends,              \* client.send_file calls made by the current call
    sleeps,             \* sleeps after a failed attempt in the current call
    limitChecks,        \* check_daily_limit_or_raise calls of the current call
    paceWaits,          \* safe_sleep_between_sends calls of the current call
    outcome,            \* how the last call ended
    ALLOWED_TARGETS,    \* configuration (lines 35-37)
    mainPc,             \* position of main
    target_chat,
    driveReqs,          \* requests to Drive made by the current run
    driveFor,           \* targets for which a request to Drive was made
    sentTo,             \* targets a file was sent to
    mainExc,            \* the exception that ended the last run
    chkPc,              \* per sender: position in check_daily_limit_or_raise
    chkState,           \* per sender: its local state
    chkKey,             \* per sender: its local key
    calls,              \* calls of check_daily_limit_or_raise so far
    passes,             \* day -> calls that returned for that day
    raises,             \* calls that raised RuntimeError
    rchunks,            \* the chunks of the response a reader was made for
    iter,               \* the reader's iterator: the chunks not yet taken
    buf,                \* the reader's buffer
    returned,           \* all that read has returned, in order
    lastN,              \* the argument of the last read
    lastData,           \* what the last read returned
    rtick               \* 0 before the first read, then 1 and 2 in turn

downloadVars == <<session, seen, faults, phase, file_id, total, part_mb, workers, dest_path,
                  dirs, parts, files, st, resp, chunkLen, tmpv, attempts, dispatches,
                  submitted, downloaded_bytes, lockW, mon, written, merge_i, destAtStart,
                  partsAtStart, resumeAll>>

dailyVars == <<DAILY_SEND_LIMIT, state_file, today>>

sendVars == <<sendPc, attempt, sends, sleeps, limitChecks, paceWaits, outcome>>

mainVars == <<ALLOWED_TARGETS, mainPc, target_chat, driveReqs, driveFor, sentTo, mainExc>>

checkVars == <<chkPc, chkState, chkKey, calls, passes, raises>>

readerVars == <<rchunks, iter, buf, returned, lastN, lastData, rtick>>

relayVars == <<dailyVars, sendVars, mainVars, checkVars, readerVars>>

\* what the steps of send_file_safe and of main leave alone
sendRest == <<downloadVars, mainVars, checkVars, readerVars>>

mainRest == <<downloadVars, dailyVars, sendVars, checkVars, readerVars>>

checkRest == <<downloadVars, sendVars, mainVars, readerVars>>

readerRest == <<downloadVars, dailyVars, sendVars, mainVars, checkVars>>

vars == <<session, seen, faults, phase, file_id, total, part_mb, workers, dest_path, dirs,
          parts, files, st, resp, chunkLen, tmpv, attempts,
          dispatches, submitted, downloaded_bytes, lockW, mon, written, merge_i, destAtStart, partsAtStart, resumeAll, relayVars>>

\* ------------------------------------------------------------ pure helpers
\* a JSON object as a function from its keys
EmptyDict == [k \in {} |-> 0]

\* DAILY_STATE_FILE (line 46): missing, or with a text that is the JSON of a
\* dict or no JSON at all (an empty file)
NoStateFile == [ex |-> FALSE, json |-> FALSE, state |-> EmptyDict]

Min(a, b) == IF a < b THEN a ELSE b

NoFile == [ex |-> FALSE, data |-> <<>>]

MkFile(d) == [ex |-> TRUE, data |-> d]

Byte(fid, off) == fid * 100 + off

\* what dest_path may hold before the first invocation: nothing, or a file
\* that is none of the objects downloaded
OldFile == MkFile(<<Byte(0, 0)>>)

\* the remote object: its bytes at offsets 0..size-1
Object(fid, size) == [k \in 1..size |-> Byte(fid, k - 1)]

\* bytes [a, b] (inclusive offsets) of a sequence, clipped to the sequence
Slice(s, a, b) == SubSeq(s, a + 1, Min(b + 1, Len(s)))

\* math.ceil(a / b) for b # 0
CeilDiv(a, b) ==
    IF b > 0
    THEN (IF a % b = 0 THEN a \div b ELSE (a \div b) + 1)
    ELSE 0 - (a \div (0 - b))

\* part_mb * 1024 * 1024
PartSize(pmb) == pmb * Mb

\* variant of NumPartsOf: one segment more than the full ones
NumPartsOfPlusOne(tot, psize) == (tot \div psize) + 1

NumPartsOf(tot, psize) == CeilDiv(tot, psize)

SegStart(i, psize) == i * psize

\* variant of SegEnd: the last segment is not clipped to the object
SegEndNoClip(i, tot, psize) == SegStart(i, psize) + psize - 1

SegEnd(i, tot, psize) == Min(tot - 1, SegStart(i, psize) + psize - 1)

Expected(i, tot, psize) == SegEnd(i, tot, psize) - SegStart(i, psize) + 1

\* variant of PartName: the index is left out of the name
PartNameFixed(i) == [k \in 1..5 |-> 0]

\* f"part_{i:05d}": the five decimal digits of i, for i < 100000
PartName(i) == [k \in 1..5 |-> (i \div (10 ^ (5 - k))) % 10]

\* Path(dest_path).with_suffix(".parts")
WithSuffix(p, suffix) == <<p[1], suffix>>

PartDirs == {WithSuffix(d, "parts") : d \in AllDests}

\* ------------------------------------------------- the session's own values
part_size == PartSize(part_mb)

num_parts == NumPartsOf(total, part_size)

tmp_dir == WithSuffix(dest_path, "parts")

\* range(num_parts); line 47 raises for part_size = 0 and nothing is planned
Segs == IF part_size = 0 THEN {} ELSE 0..(num_parts - 1)

start(i) == SegStart(i, part_size)

end(i) == SegEnd(i, total, part_size)

part(i) == parts[tmp_dir][i]

Running == {"started", "chunks", "lock", "store"}

Finished == {"returned", "raised"}

InFlight == {i \in PartIdx : st[i] \in Running}

\* part_path.exists() and part_path.stat().st_size == (end - start + 1)
ResumeOk(f, i, tot, psize) == f.ex /\ Len(f.data) = Expected(i, tot, psize)

EmptyFn(v) == [i \in PartIdx |-> v]

\* some part directory still holds a part
LeftOver == \E dd \in PartDirs, i \in PartIdx : parts[dd][i].ex

\* the relay is another program: while the downloader runs, nothing of it
\* exists
DailyIdle ==
    /\ DAILY_SEND_LIMIT = 0
    /\ state_file = NoStateFile
    /\ today = 0

SendIdle ==
    /\ sendPc = "idle"
    /\ attempt = 0
    /\ sends = 0
    /\ sleeps = 0
    /\ limitChecks = 0
    /\ paceWaits = 0
    /\ outcome = "none"

MainIdle ==
    /\ ALLOWED_TARGETS = {<<"int", "-1003558732793">>}
    /\ mainPc = "idle"
    /\ target_chat = <<"str", "">>
    /\ driveReqs = 0
    /\ driveFor = {}
    /\ sentTo = {}
    /\ mainExc = "none"

CheckIdle ==
    /\ chkPc = [s \in 1..MaxSenders |-> "idle"]
    /\ chkState = [s \in 1..MaxSenders |-> EmptyDict]
    /\ chkKey = [s \in 1..MaxSenders |-> 0]
    /\ calls = 0
    /\ passes = [d \in 0..MaxDay |-> 0]
    /\ raises = 0

ReaderIdle ==
    /\ rchunks = <<>>
    /\ iter = <<>>
    /\ buf = <<>>
    /\ returned = <<>>
    /\ lastN = 0
    /\ lastData = <<>>
    /\ rtick = 0

RelayIdle ==
    /\ DailyIdle
    /\ SendIdle
    /\ MainIdle
    /\ CheckIdle
    /\ ReaderIdle

Init ==
    /\ session = 0
    /\ seen = 0
    /\ faults = 0
    /\ phase = "idle"
    /\ file_id = 1
    /\ total = 0
    /\ part_mb \in PartMbs
    /\ workers \in 1..MaxWorkers
    /\ dest_path = <<"a", "mp4">>
    /\ dirs = {}
    /\ parts = [d \in PartDirs |-> [i \in PartIdx |-> NoFile]]
    /\ files \in {f \in [AllDests -> {NoFile, OldFile}] :
                    \A d \in AllDests \ Dests : f[d] = NoFile}
    /\ st = EmptyFn("none")
    /\ resp = EmptyFn(<<>>)
    /\ chunkLen = EmptyFn(0)
    /\ tmpv = EmptyFn(0)
    /\ attempts = EmptyFn(0)
    /\ dispatches = EmptyFn(0)
    /\ submitted = 0
    /\ downloaded_bytes = 0
    /\ lockW = {}
    /\ mon = "none"
    /\ written = 0
    /\ merge_i = 0
    /\ destAtStart = NoFile
    /\ partsAtStart = [i \in PartIdx |-> NoFile]
    /\ resumeAll = FALSE
    /\ RelayIdle

\* ------------------------------------------------------------- main thread
\* lines 36-60 and 109-110: metadata, part_size, num_parts, tmp_dir.mkdir,
\* the lock and the counter, start of the progress thread.  part_mb = 0 makes
\* line 47 raise ZeroDivisionError before tmp_dir is created.  The caller
\* passes the same workers and part_mb to every invocation (line 413).  File ids are
\* names: they are taken in the order of first use.  The program is invoked
\* again after a failure or when parts were left behind.
StartSession(fid, tot, d) ==
    /\ \/ phase \in {"idle", "failed"}
       \/ phase = "done" /\ LeftOver
    /\ fid <= seen + 1
    /\ seen' = IF fid > seen THEN fid ELSE seen
    /\ session' = 1 - session
    /\ file_id' = fid
    /\ total' = tot
    /\ dest_path' = d
    /\ destAtStart' = files[d]
    /\ partsAtStart' = parts[WithSuffix(d, "parts")]
    /\ st' = [i \in PartIdx |->
                IF part_mb # 0 /\ i < NumPartsOf(tot, part_size)
                THEN "unsub" ELSE "none"]
    /\ resp' = EmptyFn(<<>>)
    /\ chunkLen' = EmptyFn(0)
    /\ tmpv' = EmptyFn(0)
    /\ attempts' = EmptyFn(0)
    /\ dispatches' = EmptyFn(0)
    /\ submitted' = 0
    /\ downloaded_bytes' = 0
    /\ lockW' = {}
    /\ written' = 0
    /\ merge_i' = 0
    /\ IF part_mb = 0
       THEN /\ phase' = "failed"
            /\ mon' = "none"
            /\ resumeAll' = FALSE
            /\ dirs' = dirs
       ELSE /\ phase' = "submit"
            /\ mon' = "sleep"
            /\ resumeAll' =
                 \A i \in 0..(NumPartsOf(tot, part_size) - 1) :
                    ResumeOk(parts[WithSuffix(d, "parts")][i], i, tot, part_size)
            /\ dirs' = dirs \cup {WithSuffix(d, "parts")}
    /\ UNCHANGED <<faults, part_mb, workers, parts, files, relayVars>>

\* line 114: ex.submit(fetch_part, i) for the next i; submit never blocks
Submit ==
    /\ phase = "submit"
    /\ submitted < num_parts
    /\ st' = [st EXCEPT ![submitted] = "pending"]
    /\ submitted' = submitted + 1
    /\ UNCHANGED <<session, seen, faults, phase, file_id, total, part_mb, workers,
                   dest_path, dirs, parts, files, resp, chunkLen, tmpv,
                   attempts, dispatches, downloaded_bytes, lockW,
                   mon, written, merge_i, destAtStart, partsAtStart, resumeAll, relayVars>>

\* line 114 -> 115: the list of futures is complete
SubmitDone ==
    /\ phase = "submit"
    /\ submitted >= num_parts
    /\ phase' = "collect"
    /\ UNCHANGED <<session, seen, faults, file_id, total, part_mb, workers, dest_path,
                   dirs, parts, files, st, resp, chunkLen, tmpv, attempts,
                   dispatches, submitted, downloaded_bytes, lockW,
                   mon, written, merge_i, destAtStart, partsAtStart, resumeAll, relayVars>>

\* lines 115-116: as_completed yields the finished futures; result() of a
\* future that returned has no effect, result() of one that raised re-raises
Collect(i) ==
    /\ phase = "collect"
    /\ i \in Segs
    /\ st[i] = "raised"
    /\ phase' = "failing"
    /\ UNCHANGED <<session, seen, faults, file_id, total, part_mb, workers, dest_path,
                   dirs, parts, files, st, resp, chunkLen, tmpv, attempts,
                   dispatches, submitted, downloaded_bytes, lockW, mon, written, merge_i, destAtStart, partsAtStart, resumeAll, relayVars>>

\* line 116 -> 119: every future was yielded and returned; the with block
\* exits normally
CollectDone ==
    /\ phase = "collect"
    /\ \A i \in Segs : st[i] = "returned"
    /\ phase' = "merge_open"
    /\ UNCHANGED <<session, seen, faults, file_id, total, part_mb, workers, dest_path,
                   dirs, parts, files, st, resp, chunkLen, tmpv, attempts,
                   dispatches, submitted, downloaded_bytes, lockW,
                   mon, written, merge_i, destAtStart, partsAtStart, resumeAll, relayVars>>

\* variant of ShutdownWait: the parts directory is removed on failure too
ShutdownWaitCleanup ==
    /\ phase = "failing"
    /\ \A i \in Segs : st[i] \in Finished
    /\ parts' = [parts EXCEPT ![tmp_dir] = [i \in PartIdx |-> NoFile]]
    /\ dirs' = dirs \ {tmp_dir}
    /\ phase' = "failed"
    /\ UNCHANGED <<session, seen, faults, file_id, total, part_mb, workers,
                   dest_path, files, st, resp, chunkLen, tmpv, attempts,
                   dispatches, submitted, downloaded_bytes, lockW, mon,
                   written, merge_i, destAtStart, partsAtStart, resumeAll, relayVars>>

\* line 113: the exception leaves the with block; ThreadPoolExecutor.__exit__
\* is shutdown(wait=True), which lets every queued future run to its end
ShutdownWait ==
    /\ phase = "failing"
    /\ \A i \in Segs : st[i] \in Finished
    /\ phase' = "failed"
    /\ UNCHANGED <<session, seen, faults, file_id, total, part_mb, workers, dest_path,
                   dirs, parts, files, st, resp, chunkLen, tmpv, attempts,
                   dispatches, submitted, downloaded_bytes, lockW,
                   mon, written, merge_i, destAtStart, partsAtStart, resumeAll, relayVars>>

\* line 119: open(dest_path, "wb") creates or truncates the final artifact
MergeOpen ==
    /\ phase = "merge_open"
    /\ files' = [files EXCEPT ![dest_path] = MkFile(<<>>)]
    /\ merge_i' = 0
    /\ phase' = "merge"
    /\ UNCHANGED <<session, seen, faults, file_id, total, part_mb, workers, dest_path,
                   dirs, parts, st, resp, chunkLen, tmpv, attempts,
                   dispatches, submitted, downloaded_bytes, lockW,
                   mon, written, destAtStart, partsAtStart, resumeAll, relayVars>>

\* variant of MergePart: the part is put in front of what was merged so far
MergePartRev ==
    /\ phase = "merge"
    /\ merge_i < num_parts
    /\ IF part(merge_i).ex
       THEN /\ files' = [files EXCEPT ![dest_path] =
                            MkFile(part(merge_i).data \o files[dest_path].data)]
            /\ merge_i' = merge_i + 1
            /\ phase' = phase
       ELSE /\ files' = files
            /\ merge_i' = merge_i
            /\ phase' = "failed"
    /\ UNCHANGED <<session, seen, faults, file_id, total, part_mb, workers,
                   dest_path, dirs, parts, st, resp, chunkLen, tmpv, attempts,
                   dispatches, submitted, downloaded_bytes, lockW, mon,
                   written, destAtStart, partsAtStart, resumeAll, relayVars>>

\* lines 120-123: out.write(p.read()) for part merge_i; a missing part makes
\* open(part_path, "rb") raise
MergePart ==
    /\ phase = "merge"
    /\ merge_i < num_parts
    /\ IF part(merge_i).ex
       THEN /\ files' = [files EXCEPT ![dest_path] =
                            MkFile(files[dest_path].data \o part(merge_i).data)]
            /\ merge_i' = merge_i + 1
            /\ phase' = phase
       ELSE /\ files' = files
            /\ merge_i' = merge_i
            /\ phase' = "failed"
    /\ UNCHANGED <<session, seen, faults, file_id, total, part_mb, workers, dest_path,
                   dirs, parts, st, resp, chunkLen, tmpv, attempts,
                   dispatches, submitted, downloaded_bytes, lockW,
                   mon, written, destAtStart, partsAtStart, resumeAll, relayVars>>

\* line 123 -> 124: the merge loop is over, the final artifact is closed
MergeClose ==
    /\ phase = "merge"
    /\ merge_i >= num_parts
    /\ phase' = "cleanup"
    /\ UNCHANGED <<session, seen, faults, file_id, total, part_mb, workers, dest_path,
                   dirs, parts, files, st, resp, chunkLen, tmpv, attempts,
                   dispatches, submitted, downloaded_bytes, lockW,
                   mon, written, merge_i, destAtStart, partsAtStart, resumeAll, relayVars>>

\* variant of Cleanup: a removal that fails makes the session fail
CleanupFatal(kept) ==
    /\ phase = "cleanup"
    /\ kept \subseteq {i \in PartIdx : part(i).ex}
    /\ IF kept = {}
       THEN faults' = faults
       ELSE faults < MaxFaults /\ faults' = faults + 1
    /\ parts' = [parts EXCEPT ![tmp_dir] =
                    [i \in PartIdx |-> IF i \in kept THEN part(i) ELSE NoFile]]
    /\ dirs' = IF kept = {} THEN dirs \ {tmp_dir} ELSE dirs
    /\ phase' = IF kept = {} THEN "done" ELSE "failed"
    /\ UNCHANGED <<session, seen, file_id, total, part_mb, workers, dest_path,
                   files, st, resp, chunkLen, tmpv, attempts, dispatches,
                   submitted, downloaded_bytes, lockW, mon,
                   written, merge_i, destAtStart, partsAtStart, resumeAll, relayVars>>

\* line 124: shutil.rmtree(tmp_dir, ignore_errors=True); the entries in
\* kept are those whose removal failed
Cleanup(kept) ==
    /\ phase = "cleanup"
    /\ kept \subseteq {i \in PartIdx : part(i).ex}
    /\ IF kept = {}
       THEN faults' = faults
       ELSE faults < MaxFaults /\ faults' = faults + 1
    /\ parts' = [parts EXCEPT ![tmp_dir] =
                    [i \in PartIdx |-> IF i \in kept THEN part(i) ELSE NoFile]]
    /\ dirs' = IF kept = {} THEN dirs \ {tmp_dir} ELSE dirs
    /\ phase' = "done"
    /\ UNCHANGED <<session, seen, file_id, total, part_mb, workers, dest_path,
                   files, st, resp, chunkLen, tmpv, attempts, dispatches,
                   submitted, downloaded_bytes, lockW, mon,
                   written, merge_i, destAtStart, partsAtStart, resumeAll, relayVars>>

\* ---------------------------------------------------------- fetch workers
\* ThreadPoolExecutor(max_workers=workers): a queued future starts, in
\* submission order, as soon as fewer than max_workers are executing
\* variant of MayStart: one worker too many
MayStartOffByOne(n, w) == n <= w

MayStart(n, w) == n < w

\* variant of Dispatch: a finished segment is handed to a worker again
DispatchAgain(i) ==
    /\ st[i] \in {"pending", "returned"}
    /\ \A j \in PartIdx : j < i => st[j] # "pending"
    /\ MayStart(Cardinality(InFlight), workers)
    /\ st' = [st EXCEPT ![i] = "started"]
    /\ dispatches' = [dispatches EXCEPT ![i] = @ + 1]
    /\ UNCHANGED <<session, seen, faults, phase, file_id, total, part_mb, workers,
                   dest_path, dirs, parts, files, resp, chunkLen, tmpv,
                   attempts, submitted, downloaded_bytes, lockW,
                   mon, written, merge_i, destAtStart, partsAtStart, resumeAll, relayVars>>

Dispatch(i) ==
    /\ st[i] = "pending"
    /\ \A j \in PartIdx : j < i => st[j] # "pending"
    /\ MayStart(Cardinality(InFlight), workers)
    /\ st' = [st EXCEPT ![i] = "started"]
    /\ dispatches' = [dispatches EXCEPT ![i] = @ + 1]
    /\ UNCHANGED <<session, seen, faults, phase, file_id, total, part_mb, workers,
                   dest_path, dirs, parts, files, resp, chunkLen, tmpv,
                   attempts, submitted, downloaded_bytes, lockW,
                   mon, written, merge_i, destAtStart, partsAtStart, resumeAll, relayVars>>

\* lines 67-69: the part exists with the expected size: return i
ResumeSkip(i) ==
    /\ st[i] = "started"
    /\ ResumeOk(part(i), i, total, part_size)
    /\ st' = [st EXCEPT ![i] = "returned"]
    /\ UNCHANGED <<session, seen, faults, phase, file_id, total, part_mb, workers,
                   dest_path, dirs, parts, files, resp, chunkLen, tmpv,
                   attempts, dispatches, submitted, downloaded_bytes, lockW, mon, written, merge_i,
                   destAtStart, partsAtStart, resumeAll, relayVars>>

\* what the server may answer to Range: bytes=a-b with a success status: the
\* range, a body cut short, or the whole object (Range not honoured)
Bodies(obj, a, b) ==
    {SubSeq(Slice(obj, a, b), 1, n) : n \in 0..Len(Slice(obj, a, b))}
        \cup {obj}

\* variant of OpenWb: the file is opened for appending
OpenAb(f) == IF f.ex THEN f ELSE MkFile(<<>>)

\* open(part_path, "wb"): the file is created, or truncated when it exists
OpenWb(f) == MkFile(<<>>)

\* number of chunks iter_content yields for a body
NumChunks(body) == CeilDiv(Len(body), ChunkSize)

\* variant of Fetch: a failed fetch is tried again
FetchRetry(i, ok, body, k, broken) ==
    /\ st[i] = "started"
    /\ ~ResumeOk(part(i), i, total, part_size)
    /\ attempts' = [attempts EXCEPT ![i] = @ + 1]
    /\ IF ok
       THEN /\ body \in Bodies(Object(file_id, total), start(i), end(i))
            /\ k \in 0..NumChunks(body)
            /\ (k < NumChunks(body) => broken)
            /\ LET exact == body = Slice(Object(file_id, total),
                                         start(i), end(i))
                   cost == (IF exact THEN 0 ELSE 1) + (IF broken THEN 1 ELSE 0)
                   data == SubSeq(body, 1, Min(k * ChunkSize, Len(body)))
               IN  /\ faults + cost <= MaxFaults
                   /\ faults' = faults + cost
                   /\ parts' = [parts EXCEPT ![tmp_dir][i] =
                                  MkFile(OpenWb(part(i)).data \o data)]
                   /\ written' = written + Len(data)
                   /\ downloaded_bytes' = downloaded_bytes + Len(data)
            /\ st' = [st EXCEPT ![i] = IF broken THEN "started" ELSE "returned"]
       ELSE /\ body = <<>> /\ k = 0 /\ ~broken
            /\ faults < MaxFaults
            /\ faults' = faults + 1
            /\ st' = st
            /\ UNCHANGED <<parts, written, downloaded_bytes>>
    /\ UNCHANGED <<session, seen, phase, file_id, total, part_mb, workers,
                   dest_path, dirs, files, resp, chunkLen, tmpv, dispatches,
                   submitted, lockW, mon, merge_i, destAtStart, partsAtStart, resumeAll, relayVars>>

\* lines 71-85 in one step (the segment's part is written by this worker
\* only, and the lock makes the additions to downloaded_bytes atomic):
\* sess.get with the Range header and raise_for_status; ok = FALSE is a
\* transport failure or an error status, raised before the part is opened;
\* otherwise open(part_path, "wb") creates or truncates the part and the
\* first k chunks of the body are written; broken says that the loop of
\* lines 78-83 raises after them (f.write fails, the worker is interrupted),
\* otherwise the body ends and fetch_part returns i
Fetch(i, ok, body, k, broken) ==
    /\ st[i] = "started"
    /\ ~ResumeOk(part(i), i, total, part_size)
    /\ attempts' = [attempts EXCEPT ![i] = @ + 1]
    /\ IF ok
       THEN /\ body \in Bodies(Object(file_id, total), start(i), end(i))
            /\ k \in 0..NumChunks(body)
            /\ (k < NumChunks(body) => broken)
            /\ LET exact == body = Slice(Object(file_id, total),
                                         start(i), end(i))
                   cost == (IF exact THEN 0 ELSE 1) + (IF broken THEN 1 ELSE 0)
                   data == SubSeq(body, 1, Min(k * ChunkSize, Len(body)))
               IN  /\ faults + cost <= MaxFaults
                   /\ faults' = faults + cost
                   /\ parts' = [parts EXCEPT ![tmp_dir][i] =
                                  MkFile(OpenWb(part(i)).data \o data)]
                   /\ written' = written + Len(data)
                   /\ downloaded_bytes' = downloaded_bytes + Len(data)
            /\ st' = [st EXCEPT ![i] = IF broken THEN "raised" ELSE "returned"]
       ELSE /\ body = <<>> /\ k = 0 /\ ~broken
            /\ faults < MaxFaults
            /\ faults' = faults + 1
            /\ st' = [st EXCEPT ![i] = "raised"]
            /\ UNCHANGED <<parts, written, downloaded_bytes>>
    /\ UNCHANGED <<session, seen, phase, file_id, total, part_mb, workers,
                   dest_path, dirs, files, resp, chunkLen, tmpv, dispatches,
                   submitted, lockW, mon, merge_i, destAtStart, partsAtStart, resumeAll, relayVars>>

\* lines 71-77, answered with the requested range: sess.get with the Range
\* header, raise_for_status, then open(part_path, "wb"), which creates or
\* truncates the part
Request(i) ==
    /\ st[i] = "started"
    /\ ~ResumeOk(part(i), i, total, part_size)
    /\ attempts' = [attempts EXCEPT ![i] = @ + 1]
    /\ resp' = [resp EXCEPT ![i] =
                   Slice(Object(file_id, total), start(i), end(i))]
    /\ parts' = [parts EXCEPT ![tmp_dir][i] = MkFile(<<>>)]
    /\ st' = [st EXCEPT ![i] = "chunks"]
    /\ UNCHANGED <<session, seen, faults, phase, file_id, total, part_mb,
                   workers, dest_path, dirs, files, chunkLen, tmpv,
                   dispatches, submitted, downloaded_bytes, lockW, mon,
                   written, merge_i, destAtStart, partsAtStart, resumeAll, relayVars>>

\* lines 78-81: the next chunk of at most chunk_size bytes is written
WriteChunk(i) ==
    /\ st[i] = "chunks"
    /\ resp[i] # <<>>
    /\ LET n == Min(ChunkSize, Len(resp[i]))
       IN  /\ parts' = [parts EXCEPT ![tmp_dir][i] =
                           MkFile(part(i).data \o SubSeq(resp[i], 1, n))]
           /\ resp' = [resp EXCEPT ![i] = SubSeq(@, n + 1, Len(@))]
           /\ chunkLen' = [chunkLen EXCEPT ![i] = n]
           /\ written' = written + n
    /\ st' = [st EXCEPT ![i] = "lock"]
    /\ UNCHANGED <<session, seen, faults, phase, file_id, total, part_mb, workers,
                   dest_path, dirs, files, tmpv, attempts, dispatches,
                   submitted, downloaded_bytes, lockW, mon,
                   merge_i, destAtStart, partsAtStart, resumeAll, relayVars>>

\* variant of LockFree: the counter is updated without mutual exclusion
LockFreeNone(w) == TRUE

\* threading.Lock: acquire succeeds only while nobody holds the lock
LockFree(w) == w = {}

\* lines 82-83: with downloaded_lock, then downloaded_bytes is read for +=
Acquire(i) ==
    /\ st[i] = "lock"
    /\ LockFree(lockW)
    /\ lockW' = lockW \cup {i}
    /\ tmpv' = [tmpv EXCEPT ![i] = downloaded_bytes]
    /\ st' = [st EXCEPT ![i] = "store"]
    /\ UNCHANGED <<session, seen, faults, phase, file_id, total, part_mb, workers,
                   dest_path, dirs, parts, files, resp, chunkLen,
                   attempts, dispatches, submitted,
                   downloaded_bytes, mon, written, merge_i,
                   destAtStart, partsAtStart, resumeAll, relayVars>>

\* line 83: the sum is stored; leaving the with block releases the lock
Store(i) ==
    /\ st[i] = "store"
    /\ downloaded_bytes' = tmpv[i] + chunkLen[i]
    /\ lockW' = lockW \ {i}
    /\ tmpv' = [tmpv EXCEPT ![i] = 0]
    /\ chunkLen' = [chunkLen EXCEPT ![i] = 0]
    /\ st' = [st EXCEPT ![i] = "chunks"]
    /\ UNCHANGED <<session, seen, faults, phase, file_id, total, part_mb, workers,
                   dest_path, dirs, parts, files, resp, attempts, dispatches,
                   submitted, mon, written, merge_i, destAtStart,
                   partsAtStart, resumeAll, relayVars>>

\* line 78 -> 85: the body is exhausted, the part is closed, return i
EndOfStream(i) ==
    /\ st[i] = "chunks"
    /\ resp[i] = <<>>
    /\ st' = [st EXCEPT ![i] = "returned"]
    /\ UNCHANGED <<session, seen, faults, phase, file_id, total, part_mb, workers,
                   dest_path, dirs, parts, files, resp, chunkLen, tmpv,
                   attempts, dispatches, submitted, downloaded_bytes, lockW, mon, written, merge_i,
                   destAtStart, partsAtStart, resumeAll, relayVars>>

\* -------------------------------------------------------- progress monitor
\* lines 92-107: after the sleep, cur = downloaded_bytes is read with
\* downloaded_lock held, so never while a worker holds it; cur / total raises
\* ZeroDivisionError for total = 0; the loop ends when cur >= total
MonSample ==
    /\ mon = "sleep"
    /\ LockFree(lockW)
    /\ mon' = IF total = 0 THEN "dead"
              ELSE IF downloaded_bytes >= total THEN "done"
              ELSE "sleep"
    /\ UNCHANGED <<session, seen, faults, phase, file_id, total, part_mb, workers,
                   dest_path, dirs, parts, files, st, resp, chunkLen, tmpv,
                   attempts, dispatches, submitted, downloaded_bytes, lockW,
                   written, merge_i, destAtStart, partsAtStart, resumeAll, relayVars>>

\* ------------------------------------------------------------ specification
\* successive invocations over one file system
Next ==
    \/ \E fid \in FileIds, tot \in 0..MaxTotal, d \in Dests :
          StartSession(fid, tot, d)
    \/ Submit
    \/ SubmitDone
    \/ \E i \in PartIdx : Dispatch(i)
    \/ \E i \in PartIdx : ResumeSkip(i)
    \/ \E i \in InFlight, ok \in BOOLEAN, broken \in BOOLEAN :
          \E body \in Bodies(Object(file_id, total), start(i), end(i))
                        \cup {<<>>} :
             \E k \in 0..NumChunks(body) : Fetch(i, ok, body, k, broken)
    \/ \E i \in PartIdx : Collect(i)
    \/ CollectDone
    \/ ShutdownWait
    \/ MergeOpen
    \/ MergePart
    \/ MergeClose
    \/ \E kept \in SUBSET PartIdx : Cleanup(kept)

Spec == Init /\ [][Next]_vars

\* one invocation that nothing disturbs, chunk by chunk, with the steps of
\* the counter update and the progress monitor
NextLock ==
    \/ \E fid \in FileIds, tot \in 0..MaxTotal, d \in Dests :
          StartSession(fid, tot, d)
    \/ Submit
    \/ SubmitDone
    \/ \E i \in PartIdx : Dispatch(i)
    \/ \E i \in PartIdx : Request(i)
    \/ \E i \in PartIdx : WriteChunk(i)
    \/ \E i \in PartIdx : Acquire(i)
    \/ \E i \in PartIdx : Store(i)
    \/ \E i \in PartIdx : EndOfStream(i)
    \/ MonSample
    \/ CollectDone
    \/ MergeOpen
    \/ MergePart
    \/ MergeClose
    \/ Cleanup({})

SpecLock == Init /\ [][NextLock]_vars

\* dest = ./downloads/<name> (line 411): the file a destination belongs to
FileOf(d) == IF d \in Dests THEN 1 ELSE 2

\* successive invocations for the two files of the folder, each downloaded
\* to the destination of its name
NextDest ==
    \/ \E tot \in 0..MaxTotal, d \in AllDests : StartSession(FileOf(d), tot, d)
    \/ Submit
    \/ SubmitDone
    \/ \E i \in PartIdx : Dispatch(i)
    \/ \E i \in PartIdx : ResumeSkip(i)
    \/ \E i \in InFlight, ok \in BOOLEAN, broken \in BOOLEAN :
          \E body \in Bodies(Object(file_id, total), start(i), end(i))
                        \cup {<<>>} :
             \E k \in 0..NumChunks(body) : Fetch(i, ok, body, k, broken)
    \/ \E i \in PartIdx : Collect(i)
    \/ CollectDone
    \/ ShutdownWait
    \/ MergeOpen
    \/ MergePart
    \/ MergeClose
    \/ \E kept \in SUBSET PartIdx : Cleanup(kept)

SpecDest == Init /\ [][NextDest]_vars

\* ======================================= the relay, src/google_to_tele.py
\* The relay is a program of its own.  Where one of its functions is followed
\* step by step, the downloader's variables keep the values they have before
\* any download.
DownloadIdle ==
    /\ session = 0
    /\ seen = 0
    /\ faults = 0
    /\ phase = "idle"
    /\ file_id = 1
    /\ total = 0
    /\ part_mb = 1
    /\ workers = 1
    /\ dest_path = <<"a", "mp4">>
    /\ dirs = {}
    /\ parts = [d \in PartDirs |-> [i \in PartIdx |-> NoFile]]
    /\ files = [d \in AllDests |-> NoFile]
    /\ st = EmptyFn("none")
    /\ resp = EmptyFn(<<>>)
    /\ chunkLen = EmptyFn(0)
    /\ tmpv = EmptyFn(0)
    /\ attempts = EmptyFn(0)
    /\ dispatches = EmptyFn(0)
    /\ submitted = 0
    /\ downloaded_bytes = 0
    /\ lockW = {}
    /\ mon = "none"
    /\ written = 0
    /\ merge_i = 0
    /\ destAtStart = NoFile
    /\ partsAtStart = [i \in PartIdx |-> NoFile]
    /\ resumeAll = FALSE

\* ----------------------------------------------------------- the daily cap
\* state.get(key, 0), line 72
Get(state, key, dflt) == IF key \in DOMAIN state THEN state[key] ELSE dflt

\* state[key] = v, line 75
Put(state, key, v) ==
    [k \in DOMAIN state \cup {key} |-> IF k = key THEN v ELSE state[k]]

\* lines 51-58: a missing file and a text that json.load rejects both give {}
load_daily_state(f) ==
    IF ~f.ex THEN EmptyDict ELSE IF ~f.json THEN EmptyDict ELSE f.state

\* lines 60-62, once json.dump has written the text
save_daily_state(state) == [ex |-> TRUE, json |-> TRUE, state |-> state]

\* line 64
today_key == today

\* lines 70-72 on the file f
SentToday(f) == Get(load_daily_state(f), today_key, 0)

\* lines 68 and 73: the call raises RuntimeError
LimitReached(f) == DAILY_SEND_LIMIT > 0 /\ SentToday(f) >= DAILY_SEND_LIMIT

\* lines 68-76 for a caller that nothing interleaves with: the file a
\* passing call leaves
Counted(f) ==
    IF DAILY_SEND_LIMIT <= 0 THEN f
    ELSE save_daily_state(Put(load_daily_state(f), today_key, SentToday(f) + 1))

\* the date changes
Midnight ==
    /\ today < MaxDay
    /\ today' = today + 1
    /\ UNCHANGED <<sendRest, DAILY_SEND_LIMIT, state_file, sendVars>>

\* ------------------------------------- check_daily_limit_or_raise, step by step
\* Senders are processes (or threads) that run the relay's send path in the
\* same working directory, so they share DAILY_STATE_FILE.  Nothing in lines
\* 51-76 locks the file: the steps of different senders interleave.
Senders == 1..MaxSenders

\* lines 68-70: a disabled cap returns at once; otherwise the file is read
CheckBegin(s) ==
    /\ chkPc[s] = "idle"
    /\ calls < MaxCalls
    /\ calls' = calls + 1
    /\ IF DAILY_SEND_LIMIT <= 0
       THEN /\ passes' = [passes EXCEPT ![today] = @ + 1]
            /\ UNCHANGED <<chkPc, chkState>>
       ELSE /\ chkPc' = [chkPc EXCEPT ![s] = "loaded"]
            /\ chkState' = [chkState EXCEPT ![s] = load_daily_state(state_file)]
            /\ UNCHANGED passes
    /\ UNCHANGED <<checkRest, dailyVars, chkKey, raises>>

\* lines 71-75: the key of today, the test against the cap, the new count in
\* the sender's copy of the state
CheckTest(s) ==
    /\ chkPc[s] = "loaded"
    /\ chkKey' = [chkKey EXCEPT ![s] = today_key]
    /\ IF Get(chkState[s], today_key, 0) >= DAILY_SEND_LIMIT
       THEN /\ chkPc' = [chkPc EXCEPT ![s] = "idle"]
            /\ raises' = raises + 1
            /\ UNCHANGED chkState
       ELSE /\ chkPc' = [chkPc EXCEPT ![s] = "save"]
            /\ chkState' = [chkState EXCEPT ![s] =
                              Put(@, today_key, Get(@, today_key, 0) + 1)]
            /\ UNCHANGED raises
    /\ UNCHANGED <<checkRest, dailyVars, calls, passes>>

\* line 61: open(DAILY_STATE_FILE, "w") leaves an empty file, which is no
\* JSON text
SaveOpen(s) ==
    /\ chkPc[s] = "save"
    /\ chkPc' = [chkPc EXCEPT ![s] = "dump"]
    /\ state_file' = [ex |-> TRUE, json |-> FALSE, state |-> EmptyDict]
    /\ UNCHANGED <<checkRest, DAILY_SEND_LIMIT, today, chkState, chkKey, calls,
                   passes, raises>>

\* line 62 and the end of the with block: the sender's copy is the file; the
\* call returns
SaveDump(s) ==
    /\ chkPc[s] = "dump"
    /\ chkPc' = [chkPc EXCEPT ![s] = "idle"]
    /\ state_file' = save_daily_state(chkState[s])
    /\ passes' = [passes EXCEPT ![chkKey[s]] = @ + 1]
    /\ UNCHANGED <<checkRest, DAILY_SEND_LIMIT, today, chkState, chkKey, calls,
                   raises>>

InitDaily ==
    /\ DownloadIdle
    /\ SendIdle
    /\ MainIdle
    /\ ReaderIdle
    /\ DAILY_SEND_LIMIT \in Limits
    /\ state_file = NoStateFile
    /\ today = 0
    /\ CheckIdle

NextDaily ==
    \/ \E s \in Senders : CheckBegin(s)
    \/ \E s \in Senders : CheckTest(s)
    \/ \E s \in Senders : SaveOpen(s)
    \/ \E s \in Senders : SaveDump(s)
    \/ Midnight

SpecDaily == InitDaily /\ [][NextDaily]_vars

\* ----------------------------------------------------------- send_file_safe
SendEnded == sendPc \in {"idle", "returned", "raised"}

\* a call of send_file_safe (line 111)
CallSend ==
    /\ SendEnded
    /\ sendPc' = "limit"
    /\ attempt' = 0
    /\ sends' = 0
    /\ sleeps' = 0
    /\ limitChecks' = 0
    /\ paceWaits' = 0
    /\ outcome' = "none"
    /\ UNCHANGED <<sendRest, dailyVars>>

\* line 112: check_daily_limit_or_raise(), a function without an await
CheckDailyLimit ==
    /\ sendPc = "limit"
    /\ limitChecks' = limitChecks + 1
    /\ IF LimitReached(state_file)
       THEN /\ sendPc' = "raised"
            /\ outcome' = "RuntimeError"
            /\ UNCHANGED state_file
       ELSE /\ sendPc' = "pace"
            /\ state_file' = Counted(state_file)
            /\ UNCHANGED outcome
    /\ UNCHANGED <<sendRest, DAILY_SEND_LIMIT, today, attempt, sends, sleeps,
                   paceWaits>>

\* line 113: safe_sleep_between_sends(); the jitter of at least 2 s makes it
\* sleep every time
SafeSleep ==
    /\ sendPc = "pace"
    /\ paceWaits' = paceWaits + 1
    /\ sendPc' = "resolve"
    /\ UNCHANGED <<sendRest, dailyVars, attempt, sends, sleeps, limitChecks,
                   outcome>>

\* lines 116-118: resolve_target_entity, whose second get_input_entity may
\* raise, and the entry of the loop over range(1, MAX_SEND_RETRIES + 1)
ResolveEntity(ok) ==
    /\ sendPc = "resolve"
    /\ IF ~ok
       THEN /\ sendPc' = "raised"
            /\ outcome' = "Exception"
            /\ UNCHANGED attempt
       ELSE IF 1 <= MAX_SEND_RETRIES
       THEN /\ sendPc' = "try"
            /\ attempt' = 1
            /\ UNCHANGED outcome
       ELSE /\ sendPc' = "raised"
            /\ outcome' = "RuntimeError"
            /\ UNCHANGED attempt
    /\ UNCHANGED <<sendRest, dailyVars, sends, sleeps, limitChecks, paceWaits>>

SendResults == {"message", "FloodWaitError", "RPCError", "Exception"}

\* lines 119-134: one client.send_file and the handler it ends in; an
\* exception that is no RPCError leaves the function
SendAttempt(res) ==
    /\ sendPc = "try"
    /\ sends' = sends + 1
    /\ \/ /\ res = "message"
          /\ sendPc' = "returned"
          /\ outcome' = "message"
       \/ /\ res \in {"FloodWaitError", "RPCError"}
          /\ sendPc' = "sleep"
          /\ UNCHANGED outcome
       \/ /\ res = "Exception"
          /\ sendPc' = "raised"
          /\ outcome' = "Exception"
    /\ UNCHANGED <<sendRest, dailyVars, attempt, sleeps, limitChecks, paceWaits>>

\* the loop goes on after the 9th failure
BackoffOneMore ==
    /\ sendPc = "sleep"
    /\ sleeps' = sleeps + 1
    /\ IF attempt < MAX_SEND_RETRIES + 1
       THEN /\ attempt' = attempt + 1
            /\ sendPc' = "try"
            /\ UNCHANGED outcome
       ELSE /\ sendPc' = "raised"
            /\ outcome' = "RuntimeError"
            /\ UNCHANGED attempt
    /\ UNCHANGED <<sendRest, dailyVars, sends, limitChecks, paceWaits>>

\* lines 132, 138 and 140: asyncio.sleep in the handler, then the next
\* attempt, or RuntimeError when the range is used up
Backoff ==
    /\ sendPc = "sleep"
    /\ sleeps' = sleeps + 1
    /\ IF attempt < MAX_SEND_RETRIES
       THEN /\ attempt' = attempt + 1
            /\ sendPc' = "try"
            /\ UNCHANGED outcome
       ELSE /\ sendPc' = "raised"
            /\ outcome' = "RuntimeError"
            /\ UNCHANGED attempt
    /\ UNCHANGED <<sendRest, dailyVars, sends, limitChecks, paceWaits>>

InitSend ==
    /\ DownloadIdle
    /\ MainIdle
    /\ CheckIdle
    /\ ReaderIdle
    /\ DAILY_SEND_LIMIT \in Limits
    /\ state_file = NoStateFile
    /\ today = 0
    /\ sendPc = "idle"
    /\ attempt = 0
    /\ sends = 0
    /\ sleeps = 0
    /\ limitChecks = 0
    /\ paceWaits = 0
    /\ outcome = "none"

\* the steps of a call that is under way
SendStep ==
    \/ CheckDailyLimit
    \/ SafeSleep
    \/ \E ok \in BOOLEAN : ResolveEntity(ok)
    \/ \E res \in SendResults : SendAttempt(res)
    \/ Backoff

\* calls of send_file_safe, one after the other, over the days
NextSend ==
    \/ CallSend
    \/ SendStep
    \/ Midnight

SpecSend == InitSend /\ [][NextSend]_vars

\* the event loop resumes a coroutine whose awaited call or sleep is over
SpecSendLive == SpecSend /\ WF_vars(SendStep)

\* --------------------------------------------------------------------- main
\* A value of Python is a pair of its type and its text, so that the int
\* -100 and the str "-100" are different values, as they are for the
\* membership test of a set.
PyInt(txt) == <<"int", txt>>

PyStr(txt) == <<"str", txt>>

\* what the operator may type or set in TG_TARGET, after strip() (line 358)
TargetInputs == {"-1003558732793", "-100", "-0100", "@chan", ""}

\* the texts int() accepts
IsIntText(s) == s \in {"-1003558732793", "-100", "-0100"}

\* the decimal text of int(s): leading zeros go
IntText(s) == IF s = "-0100" THEN "-100" ELSE s

\* lines 359-362: int(target), or the string itself when int() raises
\* ValueError
TargetChat(s) == IF IsIntText(s) THEN PyInt(IntText(s)) ELSE PyStr(s)

\* the values an operator may have put into ALLOWED_TARGETS (lines 35-37):
\* numeric ids, user names, and an id written as a string
TargetValues ==
    {PyInt("-1003558732793"), PyInt("-100"), PyStr("@chan"), PyStr("-100")}

\* lines 83 and 87: assert_allowed_target raises ValueError
Refused(t) == ALLOWED_TARGETS = {} \/ t \notin ALLOWED_TARGETS

\* the Drive requests of main, in their order: lines 368, 370, 381, 395, 413
\* and 420
DriveSteps == 6

MainEnded == mainPc \in {"idle", "failed", "done"}

\* lines 346-362: the program is started and the target is read; a text that
\* is no number for api_id ends it at line 354
ReadTarget(inp, ok) ==
    /\ MainEnded
    /\ driveReqs' = 0
    /\ IF ok
       THEN /\ target_chat' = TargetChat(inp)
            /\ mainPc' = "assert"
            /\ mainExc' = "none"
       ELSE /\ target_chat' = PyStr("")
            /\ mainPc' = "failed"
            /\ mainExc' = "ValueError"
    /\ UNCHANGED <<mainRest, ALLOWED_TARGETS, driveFor, sentTo>>

\* the test that refuses nothing
AssertAllowedNone ==
    /\ mainPc = "assert"
    /\ mainPc' = "drive"
    /\ UNCHANGED <<mainRest, ALLOWED_TARGETS, target_chat, driveReqs, driveFor,
                   sentTo, mainExc>>

\* line 366: assert_allowed_target(target_chat)
AssertAllowed ==
    /\ mainPc = "assert"
    /\ IF Refused(target_chat)
       THEN /\ mainPc' = "failed"
            /\ mainExc' = "ValueError"
       ELSE /\ mainPc' = "drive"
            /\ UNCHANGED mainExc
    /\ UNCHANGED <<mainRest, ALLOWED_TARGETS, target_chat, driveReqs, driveFor,
                   sentTo>>

\* lines 368-421: one request to Drive; a failed request, an empty listing or
\* a wrong choice ends the program
DriveRequest(ok) ==
    /\ mainPc = "drive"
    /\ driveReqs' = driveReqs + 1
    /\ driveFor' = driveFor \cup {target_chat}
    /\ IF ~ok
       THEN /\ mainPc' = "failed"
            /\ mainExc' = "Exception"
       ELSE /\ mainPc' = IF driveReqs + 1 = DriveSteps THEN "connect" ELSE "drive"
            /\ UNCHANGED mainExc
    /\ UNCHANGED <<mainRest, ALLOWED_TARGETS, target_chat, sentTo>>

\* lines 425-427: the client connects and the target is resolved
ConnectResolve(ok) ==
    /\ mainPc = "connect"
    /\ IF ok
       THEN /\ mainPc' = "send"
            /\ UNCHANGED mainExc
       ELSE /\ mainPc' = "failed"
            /\ mainExc' = "Exception"
    /\ UNCHANGED <<mainRest, ALLOWED_TARGETS, target_chat, driveReqs, driveFor,
                   sentTo>>

\* lines 432-445: the stream is sent with client.send_file; after it the
\* argument uploaded of send_file_safe is a name that nothing defines, so the
\* call is not made and NameError ends the program
SendStream(ok) ==
    /\ mainPc = "send"
    /\ sentTo' = sentTo \cup {target_chat}
    /\ mainPc' = "failed"
    /\ mainExc' = IF ok THEN "NameError" ELSE "Exception"
    /\ UNCHANGED <<mainRest, ALLOWED_TARGETS, target_chat, driveReqs, driveFor>>

InitMain ==
    /\ DownloadIdle
    /\ DailyIdle
    /\ SendIdle
    /\ CheckIdle
    /\ ReaderIdle
    /\ ALLOWED_TARGETS \in SUBSET TargetValues
    /\ mainPc = "idle"
    /\ target_chat = PyStr("")
    /\ driveReqs = 0
    /\ driveFor = {}
    /\ sentTo = {}
    /\ mainExc = "none"

\* runs of the relay, one after the other, with one configuration
NextMain ==
    \/ \E inp \in TargetInputs, ok \in BOOLEAN : ReadTarget(inp, ok)
    \/ AssertAllowed
    \/ \E ok \in BOOLEAN : DriveRequest(ok)
    \/ \E ok \in BOOLEAN : ConnectResolve(ok)
    \/ \E ok \in BOOLEAN : SendStream(ok)

SpecMain == InitMain /\ [][NextMain]_vars

\* ------------------------------------------------------ DriveStreamingReader
\* The bytes of the response are numbered 1, 2, ... in the order the server
\* sends them, so a byte that is lost, doubled or out of place shows.
RECURSIVE SumLens(_, _)
\* the length of the first k chunks with the lengths lens
SumLens(lens, k) == IF k = 0 THEN 0 ELSE SumLens(lens, k - 1) + lens[k]

\* the chunks response.iter_content yields (line 274), given their lengths
ChunksOf(lens) ==
    [i \in 1..Len(lens) |-> [j \in 1..lens[i] |-> SumLens(lens, i - 1) + j]]

\* the lengths of up to MaxChunks chunks, empty chunks among them
ChunkLens == UNION {[1..k -> 0..MaxChunkLen] : k \in 0..MaxChunks}

RECURSIVE Flatten(_)
\* the chunks one after the other
Flatten(cs) == IF cs = <<>> THEN <<>> ELSE Head(cs) \o Flatten(Tail(cs))

RECURSIVE Fill(_, _, _)
\* lines 284-290: chunks are taken from the iterator until the buffer holds n
\* bytes (for n < 0: until StopIteration); an empty chunk is skipped
Fill(b, it, n) ==
    IF (n < 0 \/ Len(b) < n) /\ it # <<>>
    THEN Fill(IF Head(it) # <<>> THEN b \o Head(it) ELSE b, Tail(it), n)
    ELSE <<b, it>>

\* bytes(self._buf[:n]), line 297
Take(b, n) == SubSeq(b, 1, Min(n, Len(b)))

\* nothing is deleted from the buffer
RestKeep(b, n) == b

\* del self._buf[:n], line 298
Rest(b, n) == SubSeq(b, Min(n, Len(b)) + 1, Len(b))

\* the arguments of read: all that is left, nothing, or a number of bytes
ReadArgs == (-1)..MaxRead

\* lines 281-299: read(n)
Read(n) ==
    /\ rtick' = IF rtick = 1 THEN 2 ELSE 1
    /\ lastN' = n
    /\ IF n = 0
       THEN /\ lastData' = <<>>
            /\ UNCHANGED <<iter, buf, returned>>
       ELSE LET f == Fill(buf, iter, n)
                data == IF n < 0 THEN f[1] ELSE Take(f[1], n)
            IN  /\ iter' = f[2]
                /\ buf' = IF n < 0 THEN <<>> ELSE Rest(f[1], n)
                /\ lastData' = data
                /\ returned' = returned \o data
    /\ UNCHANGED <<readerRest, rchunks>>

InitReader ==
    /\ DownloadIdle
    /\ DailyIdle
    /\ SendIdle
    /\ MainIdle
    /\ CheckIdle
    /\ \E lens \in ChunkLens : rchunks = ChunksOf(lens)
    /\ iter = rchunks
    /\ buf = <<>>
    /\ returned = <<>>
    /\ lastN = 0
    /\ lastData = <<>>
    /\ rtick = 0

\* one reader over one response, read in any way
NextReader == \E n \in ReadArgs : Read(n)

SpecReader == InitReader /\ [][NextReader]_vars

\* ================================================================ properties
RECURSIVE ConcatParts(_)
\* the parts 0 .. n-1 of the session, one after the other
ConcatParts(n) ==
    IF n <= 0 THEN <<>> ELSE ConcatParts(n - 1) \o part(n - 1).data

RECURSIVE SumExpected(_, _, _)
SumExpected(n, tot, psize) ==
    IF n <= 0 THEN 0
    ELSE SumExpected(n - 1, tot, psize) + Expected(n - 1, tot, psize)

PlanSizes(tot, psize) ==
    [k \in 1..NumPartsOf(tot, psize) |-> Expected(k - 1, tot, psize)]

\* segment i was fetched in this session and its fetch stored exactly the
\* requested range
FetchedOk(i) ==
    /\ attempts[i] = 1
    /\ st[i] = "returned"
    /\ part(i).ex
    /\ Len(part(i).data) = Expected(i, total, part_size)

FailedByFetch == \E i \in Segs : st[i] = "raised"

NoIncrementInProgress == \A i \in PartIdx : st[i] \notin {"lock", "store"}

\* C1: the final artifact is at every moment of the merge the concatenation
\* of the parts 0 .. merge_i-1 in ascending order, and when every segment was
\* fetched successfully in the session the merged artifact is the source
\* object, byte for byte, whatever the segment size and the completion order.
C1_MergeReproducesObject ==
    /\ phase \in {"merge", "cleanup"} =>
          files[dest_path] = MkFile(ConcatParts(merge_i))
    /\ (phase = "cleanup" /\ part_mb > 0 /\ \A i \in Segs : FetchedOk(i)) =>
          files[dest_path] = MkFile(Object(file_id, total))

C1_Witness ==
    /\ phase = "cleanup"
    /\ total = 2
    /\ part_mb = 1
    /\ workers = 2
    /\ \A i \in Segs : FetchedOk(i)
    /\ files[dest_path].data = Object(file_id, 2)

\* C2: for a segment size > 0 the planned segments are contiguous, do not
\* overlap and cover [0, total) exactly once; their number is
\* ceil(total / part_size); only the last one may be shorter; the expected
\* sizes add up to total; 150 MiB in segments of 64 MiB is [64, 64, 22].
C2_PlanPartitions ==
    (phase # "idle" /\ part_mb > 0) =>
        /\ num_parts >= 0
        /\ num_parts * part_size >= total
        /\ (num_parts - 1) * part_size < total
        /\ \A i \in Segs :
              /\ start(i) = i * part_size
              /\ (i = 0 => start(i) = 0)
              /\ (i + 1 \in Segs => start(i + 1) = end(i) + 1)
              /\ (i = num_parts - 1 => end(i) = total - 1)
              /\ Expected(i, total, part_size) >= 1
              /\ Expected(i, total, part_size) <= part_size
              /\ (i < num_parts - 1 => Expected(i, total, part_size) = part_size)
        /\ \A off \in 0..(total - 1) :
              Cardinality({i \in Segs : start(i) <= off /\ off <= end(i)}) = 1
        /\ SumExpected(num_parts, total, part_size) = total
        /\ PlanSizes(150 * Mb, PartSize(64)) = <<64 * Mb, 64 * Mb, 22 * Mb>>

C2_Witness ==
    /\ phase = "collect"
    /\ part_mb > 0
    /\ num_parts >= 1
    /\ attempts[num_parts - 1] = 1
    /\ Expected(num_parts - 1, total, part_size) < part_size

\* C3: a segment whose fetch stored a number of bytes different from
\* end - start + 1 never becomes Done (its future never returns normally).
C3_MismatchNeverDone ==
    \A i \in Segs :
        (phase \in {"submit", "collect", "failing", "failed", "merge_open",
                    "merge", "cleanup"}
            /\ attempts[i] = 1 /\ st[i] = "returned")
        => Len(part(i).data) = Expected(i, total, part_size)

\* C4: the merge starts and runs only while every segment is Done: its part
\* exists and holds exactly the expected number of bytes.
C4_MergeOnlyWhenAllDone ==
    phase \in {"merge_open", "merge"} =>
        \A i \in Segs : ResumeOk(part(i), i, total, part_size)

\* C5: a session that starts with every part present in its expected size
\* issues no range request and merges the artifact a fresh download produces.
C5_ResumeIdempotent ==
    (resumeAll /\ part_mb > 0 /\ phase = "cleanup") =>
        /\ \A i \in Segs : attempts[i] = 0
        /\ files[dest_path] = MkFile(Object(file_id, total))

\* C6: no update of the shared counter is lost: at most one thread is inside
\* the locked region, whenever no increment is in progress downloaded_bytes
\* is the sum of the lengths of the chunks written so far, and the monitor
\* samples the counter only while no worker holds downloaded_lock.
C6_CounterExact ==
    /\ [](Cardinality(lockW) <= 1)
    /\ [](NoIncrementInProgress => downloaded_bytes = written)
    /\ [][(session' = session /\ mon' # mon) => lockW = {}]_vars

C6_Witness ==
    /\ workers = 2
    /\ Cardinality(InFlight) = 2
    /\ \A i \in InFlight : st[i] = "chunks" /\ part(i).data # <<>>
    /\ written >= 2
    /\ downloaded_bytes = written

\* C7: when a session fails because the fetch of a segment fails, the final
\* artifact is neither created nor written, the parts directory stays, and
\* every part that is Done stays present with unchanged content.
C7_FailureKeepsParts ==
    /\ [](FailedByFetch =>
            /\ phase \in {"submit", "collect", "failing", "failed"}
            /\ files[dest_path] = destAtStart
            /\ tmp_dir \in dirs
            /\ \A i \in Segs : st[i] = "returned" => part(i).ex)
    /\ [][\A i \in PartIdx :
            (FailedByFetch /\ st[i] = "returned" /\ session' = session)
            => parts'[tmp_dir][i] = parts[tmp_dir][i]]_vars

C7_Witness ==
    /\ phase = "failed"
    /\ FailedByFetch
    /\ destAtStart.ex
    /\ destAtStart.data # <<>>
    /\ files[dest_path] = destAtStart
    /\ \E i \in Segs : st[i] = "returned" /\ part(i).data # <<>>

\* C8: once the fetch of a segment has failed, no segment that is still
\* waiting is started.
C8_NoDispatchAfterFailure ==
    [][\A j \in PartIdx :
         (FailedByFetch /\ st[j] = "pending" /\ session' = session)
         => st'[j] = "pending"]_vars

C10_SubmitBlocksAtW ==
    [][submitted' > submitted => Cardinality(InFlight) < workers]_vars

\* C10 amended: at most workers segments execute fetch_part at the same
\* time, a segment is picked up at most once, exactly once when it runs or
\* has finished, and every planned segment has been picked up when the
\* session ends; segments queue while workers segments are in flight.
C10_BoundedPool ==
    /\ Cardinality(InFlight) <= workers
    /\ \A i \in PartIdx :
          /\ dispatches[i] <= 1
          /\ (st[i] \in Running \cup Finished <=> dispatches[i] = 1)
    /\ phase \in {"merge_open", "merge", "cleanup", "done", "failed"} =>
          \A i \in Segs : dispatches[i] = 1

C10_Witness ==
    /\ Cardinality(InFlight) = workers
    /\ \E i \in Segs : st[i] = "pending"

\* the object a byte belongs to
ObjectOf(b) == b \div 100

\* C11: in a session with total > 0 in which every segment has become Done,
\* fetched or skipped by the resume test, the counter the monitor samples
\* has reached total, so that the monitor's exit test cur >= total succeeds.
C11_CounterReachesTotal ==
    (phase \in {"merge_open", "merge", "cleanup", "done"}
        /\ total > 0 /\ part_mb > 0
        /\ \A i \in Segs :
              st[i] = "returned" /\ ResumeOk(part(i), i, total, part_size))
    => downloaded_bytes >= total

\* C12: a part that the resume test accepts was written by a session with
\* the same destination path: it holds no byte of the other destination's
\* file.
C12_DisjointPartStores ==
    \A i \in Segs :
        (st[i] = "returned" /\ attempts[i] = 0)
        => \A k \in 1..Len(part(i).data) :
              ObjectOf(part(i).data[k]) = FileOf(dest_path)

\* C13: when a range request is answered with the whole object, the final
\* artifact is the source object, once.
C13_RangeIgnoredFallback ==
    (phase = "cleanup" /\ part_mb > 0
        /\ \E i \in Segs :
              /\ attempts[i] = 1
              /\ Expected(i, total, part_size) < total
              /\ part(i) = MkFile(Object(file_id, total)))
    => files[dest_path] = MkFile(Object(file_id, total))

\* C14: with a segment size of zero or less the session fails before a
\* range request is issued and before the parts directory or the final
\* artifact is created or written.
C14_PlanningFails ==
    (part_mb <= 0 /\ phase # "idle")
    => /\ phase = "failed"
       /\ tmp_dir \notin dirs
       /\ files[dest_path] = destAtStart
       /\ \A i \in PartIdx : attempts[i] = 0

\* C15: for an object of size 0 and a segment size other than 0 the plan has
\* no segment, no range request is issued, the session never fails, its main
\* thread can always go on until the session is over, and the final artifact
\* is the empty file.
C15_EmptyObject ==
    (total = 0 /\ part_mb # 0 /\ phase # "idle")
    => /\ Segs = {}
       /\ \A i \in PartIdx : st[i] = "none" /\ attempts[i] = 0
       /\ phase \in {"submit", "collect", "merge_open", "merge", "cleanup",
                     "done"}
       /\ phase # "done" =>
             ENABLED (SubmitDone \/ CollectDone \/ MergeOpen \/ MergeClose
                         \/ Cleanup({}))
       /\ phase \in {"merge", "cleanup", "done"} =>
             files[dest_path] = MkFile(<<>>)

C15_Witness ==
    /\ total = 0
    /\ part_mb > 0
    /\ phase = "done"
    /\ destAtStart = OldFile
    /\ files[dest_path] = MkFile(<<>>)
    /\ tmp_dir \notin dirs

\* C16: a part that the resume test accepts holds exactly the bytes
\* [start, end] of its segment of the object that is downloaded now.
C16_ResumedPartExact ==
    \A i \in Segs :
        (part_mb > 0 /\ st[i] = "returned" /\ attempts[i] = 0 /\ part(i).ex)
        => part(i).data = Slice(Object(file_id, total), start(i), end(i))

\* the state of a segment in the terms of the segment state machine
SegState(v) ==
    IF v \in {"unsub", "pending"} THEN "Pending"
    ELSE IF v \in Running THEN "InFlight"
    ELSE IF v = "returned" THEN "Done"
    ELSE IF v = "raised" THEN "Failed"
    ELSE "None"

\* C17: within a session a segment changes its state only along
\* Pending -> InFlight -> {Done, Failed} and Failed -> InFlight; a range
\* request is issued only for a segment that is InFlight; a segment that is
\* Done stays Done, no request is issued for it, and its part is not
\* written again (the cleanup after the merge may remove it).
C17_SegmentStateMachine ==
    [][session' = session =>
        \A i \in PartIdx :
           /\ SegState(st'[i]) # SegState(st[i]) =>
                 <<SegState(st[i]), SegState(st'[i])>> \in
                    {<<"Pending", "InFlight">>, <<"InFlight", "Done">>,
                     <<"InFlight", "Failed">>, <<"Failed", "InFlight">>}
           /\ attempts'[i] # attempts[i] => st[i] \in Running
           /\ st[i] = "returned" =>
                 /\ st'[i] = "returned"
                 /\ attempts'[i] = attempts[i]
                 /\ \/ parts'[tmp_dir][i] = parts[tmp_dir][i]
                    \/ phase = "cleanup" /\ parts'[tmp_dir][i] = NoFile]_vars

C17_Witness ==
    /\ phase = "cleanup"
    /\ \E i \in Segs :
          st[i] = "returned" /\ attempts[i] = 0 /\ partsAtStart[i].ex
    /\ \E j \in Segs : st[j] = "returned" /\ attempts[j] = 1

\* the segments whose part, of the given name, is open for writing
Writers(n) ==
    {i \in PartIdx : st[i] \in {"chunks", "lock", "store"} /\ PartName(i) = n}

\* C18: a segment is handed to a worker at most once in a session, different
\* segments have parts of different names, and no part is open for writing
\* in two workers at the same time.
C18_ExclusiveWriter ==
    \A i \in PartIdx :
        /\ dispatches[i] <= 1
        /\ \A j \in PartIdx : i # j => PartName(i) # PartName(j)
        /\ Cardinality(Writers(PartName(i))) <= 1

C18_Witness ==
    /\ Cardinality({i \in PartIdx : st[i] \in {"chunks", "lock", "store"}}) = 2
    /\ \E i \in PartIdx : st[i] = "lock" /\ part(i).data # <<>>
    /\ \A i \in PartIdx : dispatches[i] = 1

\* C19: a fetch that nothing disturbs leaves exactly the bytes [start, end]
\* in the part, whatever the part held before, and a fetch whose request
\* fails leaves the part as it was.
C19_FetchIdempotent ==
    [][\A i \in PartIdx :
         /\ (session' = session /\ attempts'[i] = attempts[i] + 1
                /\ faults' = faults)
            => /\ st'[i] = "returned"
               /\ parts'[tmp_dir][i] =
                     MkFile(Slice(Object(file_id, total), start(i), end(i)))
         /\ Fetch(i, FALSE, <<>>, 0, FALSE)
            => (parts' = parts /\ st'[i] = "raised")]_vars

C19_Witness ==
    \E i \in Segs :
        /\ partsAtStart[i].ex
        /\ partsAtStart[i].data # <<>>
        /\ ~ResumeOk(partsAtStart[i], i, total, part_size)
        /\ st[i] = "returned"
        /\ attempts[i] = 1
        /\ part(i) = MkFile(Slice(Object(file_id, total), start(i), end(i)))

\* C20: within a session a part is removed only by the cleanup, when the
\* final artifact holds all the parts; the cleanup ends the session as done
\* and leaves the final artifact as it is, also when a removal fails; when
\* no removal fails no part and no parts directory is left.
C20_CleanupAfterMerge ==
    [][session' = session =>
        /\ (\E i \in PartIdx :
               parts[tmp_dir][i].ex /\ ~parts'[tmp_dir][i].ex)
           => /\ phase = "cleanup"
              /\ files[dest_path] = MkFile(ConcatParts(num_parts))
        /\ phase = "cleanup"
           => /\ phase' = "done"
              /\ files' = files
              /\ faults' = faults =>
                    /\ \A i \in PartIdx : parts'[tmp_dir][i] = NoFile
                    /\ tmp_dir \notin dirs']_vars

C20_Witness ==
    /\ phase = "done"
    /\ total > 0
    /\ LeftOver
    /\ files[dest_path] = MkFile(Object(file_id, total))

\* ---------------------------------------------------------------------- C21
\* what a call of send_file_safe has done at each of its positions: every
\* attempt before the current one failed and was followed by a sleep, and the
\* daily-limit test and the pacing wait were done once
C21_Counts ==
    /\ sends <= MAX_SEND_RETRIES
    /\ limitChecks <= 1
    /\ paceWaits <= 1
    /\ sendPc \in {"try", "sleep", "returned"} => limitChecks = 1 /\ paceWaits = 1
    /\ sendPc = "try" => sends = attempt - 1 /\ sleeps = attempt - 1
    /\ sendPc = "sleep" => sends = attempt /\ sleeps = attempt - 1
    /\ sendPc = "returned" =>
          outcome = "message" /\ sends = attempt /\ sleeps = attempt - 1
    /\ (sendPc = "raised" /\ outcome = "RuntimeError" /\ paceWaits = 1) =>
          sends = MAX_SEND_RETRIES /\ sleeps = MAX_SEND_RETRIES
    /\ (sends = MAX_SEND_RETRIES /\ sleeps = MAX_SEND_RETRIES) =>
          sendPc = "raised" /\ outcome = "RuntimeError"

\* C21: one call of send_file_safe makes at most MAX_SEND_RETRIES attempts,
\* returns at the first attempt that succeeds and makes no attempt after it,
\* sleeps after every attempt that raised FloodWaitError or RPCError, raises
\* RuntimeError after MAX_SEND_RETRIES failed attempts, tests the daily limit
\* and waits for the pacing once, and comes to an end.
C21_SendTerminates ==
    /\ []C21_Counts
    /\ [][sendPc = "returned" => sends' <= sends]_vars
    /\ (~SendEnded) ~> SendEnded

\* a call that gave up: MAX_SEND_RETRIES attempts, each followed by a sleep
C21_Witness ==
    /\ sendPc = "raised"
    /\ outcome = "RuntimeError"
    /\ sends = MAX_SEND_RETRIES
    /\ sleeps = MAX_SEND_RETRIES
    /\ limitChecks = 1
    /\ paceWaits = 1

\* ---------------------------------------------------------------------- C22
\* C22: in the relay no request to Drive and no send to Telegram is made for
\* a target that is not in ALLOWED_TARGETS: with an empty list or a target
\* outside it, assert_allowed_target ends the run with ValueError before the
\* first request, and every send of every run goes to a listed target.
C22_OnlyAllowedTargets ==
    /\ driveFor \subseteq ALLOWED_TARGETS
    /\ sentTo \subseteq ALLOWED_TARGETS
    /\ mainPc \in {"drive", "connect", "send"} => target_chat \in ALLOWED_TARGETS
    /\ driveReqs > 0 => target_chat \in ALLOWED_TARGETS
    /\ (Refused(target_chat) /\ mainPc \notin {"idle", "assert"}) =>
          mainPc = "failed" /\ mainExc = "ValueError" /\ driveReqs = 0

\* a file was sent while the list holds some targets and not others
C22_Witness ==
    /\ sentTo # {}
    /\ driveReqs = DriveSteps
    /\ ALLOWED_TARGETS # TargetValues
    /\ target_chat = PyInt("-100")

\* ---------------------------------------------------------------------- C23
\* C23: with a cap above 0 the calls of check_daily_limit_or_raise that pass
\* on one day are never more than DAILY_SEND_LIMIT, also when several senders
\* run the check at the same time on one state file; with a cap of 0 or less
\* no call raises and the state file is never touched.
C23_DailyCapHolds ==
    /\ DAILY_SEND_LIMIT > 0 => \A d \in Days : passes[d] <= DAILY_SEND_LIMIT
    /\ DAILY_SEND_LIMIT <= 0 => raises = 0 /\ state_file = NoStateFile

\* ---------------------------------------------------------------------- C24
\* the whole response
Stream == Flatten(rchunks)

\* a read has been made, and it was the one the state shows
ReadDone == rtick # 0

\* after a read(n) with n > 0: at most n bytes, and fewer than n only with
\* the iterator and the buffer empty; at all times what was returned, the
\* buffer and the chunks not yet taken are the response, byte for byte
C24_Sizes ==
    /\ (ReadDone /\ lastN > 0) =>
          /\ Len(lastData) <= lastN
          /\ Len(lastData) < lastN => iter = <<>> /\ buf = <<>>
    /\ returned \o buf \o Flatten(iter) = Stream

\* a step that is read(0) returns nothing and leaves the reader as it is; a
\* step that is read(-1) returns all that was left
C24_ZeroAndAll ==
    /\ (rtick' # rtick /\ lastN' = 0) =>
          lastData' = <<>> /\ UNCHANGED <<iter, buf, returned>>
    /\ (rtick' # rtick /\ lastN' = -1) =>
          /\ lastData' = buf \o Flatten(iter)
          /\ iter' = <<>>
          /\ buf' = <<>>
          /\ returned' = Stream

\* C24 as stated: the sizes, read(0), read(-1) and the order of the bytes as
\* above, and once a read returns empty, all that was returned is the whole
\* response.
C24_EmptyReadIsEnd ==
    /\ []C24_Sizes
    /\ [][C24_ZeroAndAll]_vars
    /\ []((ReadDone /\ lastData = <<>>) => returned = Stream)

\* C24 (amended): the same, with the end of the response told by an empty
\* result of a read that asked for bytes, read(n) with n other than 0; the
\* empty result of read(0) tells nothing about the end.
C24_ReadContract ==
    /\ []C24_Sizes
    /\ [][C24_ZeroAndAll]_vars
    /\ []((ReadDone /\ lastN # 0 /\ lastData = <<>>) => returned = Stream)

\* a read that asked for more than was left, over a response with an empty
\* chunk in it: it got the rest, and the reads together got the whole
C24_Witness ==
    /\ ReadDone
    /\ lastN > 0
    /\ lastData # <<>>
    /\ Len(lastData) < lastN
    /\ Len(returned) > Len(lastData)
    /\ \E i \in 1..Len(rchunks) : rchunks[i] = <<>>
    /\ returned = Stream

====
